---------------------------- MODULE Spec2Model ----------------------------
(***************************************************************************)
(* Model of vaping's fping probe plugin (src/vaping/plugins/fping.py):     *)
(* construction with dialect detection, the line parser parse_verbose,     *)
(* the process runner _run_proc and the orchestrator probe().              *)
(*                                                                         *)
(* Text is modelled as sequences of one-character strings; bytes read from *)
(* the process are sequences of byte names (an ASCII byte is named by its  *)
(* character, other bytes by "xC3", "xA9", "xFF").  A float is a binary    *)
(* floating-point number of MantissaBits significant bits, held as a whole *)
(* number of units of 2^-FracBits and rounded to nearest, ties to even,    *)
(* as the doubles of the interpreter are with 53 bits; the loss ratio is   *)
(* kept as a num/den pair.                                                 *)
(***************************************************************************)
EXTENDS Integers, Sequences, FiniteSets, TLC

(***************************************************************************)
(* Bounds of the model                                                     *)
(***************************************************************************)
MaxHead == 2      \* pieces in the left part of a generated text line
MaxTokens == 3    \* pieces in the right part of a generated text line
MaxLines == 2     \* lines the external process emits in one cycle
MaxVersionOut == 2 \* pieces in the output of the version query
MaxHosts == 3     \* entries in the configured host list
MaxSamples == 3   \* tokens of a line generated for the statistics
MantissaBits == 3 \* significant bits of a float
FracBits == 5     \* a float is a multiple of 2^-FracBits

(***************************************************************************)
(* Python string primitives used by the plugin                             *)
(***************************************************************************)
\* characters str.strip() and float() treat as white space
Whitespace == {" ", "\t", "\n"}

\* s[i..j] as a sequence (empty when j < i)
Slice(s, i, j) == IF j < i THEN <<>> ELSE SubSeq(s, i, j)

\* TRUE iff sep occurs in s at position i
OccursAt(s, sep, i) ==
    /\ i >= 1
    /\ i + Len(sep) - 1 <= Len(s)
    /\ \A k \in 1..Len(sep) : s[i + k - 1] = sep[k]

\* index of the first occurrence of sep in s, 0 when there is none
Find(s, sep) ==
    LET hits == {i \in 1..Len(s) : OccursAt(s, sep, i)}
    IN  IF hits = {} THEN 0 ELSE CHOOSE i \in hits : \A j \in hits : i <= j

\* str.split(sep) with an explicit separator
RECURSIVE Split(_, _)
Split(s, sep) ==
    LET i == Find(s, sep)
    IN  IF i = 0 THEN <<s>>
        ELSE <<Slice(s, 1, i - 1)>> \o Split(Slice(s, i + Len(sep), Len(s)), sep)

\* str.strip()
Strip(s) ==
    LET keep == {i \in 1..Len(s) : s[i] \notin Whitespace}
    IN  IF keep = {} THEN <<>>
        ELSE Slice(s, CHOOSE i \in keep : \A j \in keep : i <= j,
                      CHOOSE i \in keep : \A j \in keep : i >= j)

Digits == {"0", "1", "2", "3", "4", "5", "6", "7", "8", "9"}

DigitVal(c) ==
    CASE c = "0" -> 0 [] c = "1" -> 1 [] c = "2" -> 2 [] c = "3" -> 3
      [] c = "4" -> 4 [] c = "5" -> 5 [] c = "6" -> 6 [] c = "7" -> 7
      [] c = "8" -> 8 [] c = "9" -> 9

RECURSIVE DecimalVal(_)
DecimalVal(ds) ==
    IF ds = <<>> THEN 0
    ELSE 10 * DecimalVal(Slice(ds, 1, Len(ds) - 1)) + DigitVal(ds[Len(ds)])

\* float(tok): white space around the literal is ignored, then an optional
\* sign and a non-empty run of digits (the only literals of the alphabet)
FloatBody(tok) ==
    LET t == Strip(tok)
    IN  IF t # <<>> /\ t[1] \in {"-", "+"} THEN Slice(t, 2, Len(t)) ELSE t

FloatOk(tok) ==
    LET b == FloatBody(tok)
    IN  b # <<>> /\ \A i \in 1..Len(b) : b[i] \in Digits

RECURSIVE Pow2(_)
Pow2(n) == IF n = 0 THEN 1 ELSE 2 * Pow2(n - 1)

\* the spacing of the floats around a value of q units
RECURSIVE StepFor(_)
StepFor(q) == IF q < Pow2(MantissaBits) THEN 1 ELSE 2 * StepFor(q \div 2)

\* the float nearest to a / b units (a >= 0, b > 0), ties to the even mantissa
RoundQ(a, b) ==
    LET d == b * StepFor(a \div b)
        m == a \div d
        r == a - m * d
    IN  (IF 2 * r > d \/ (2 * r = d /\ m % 2 = 1) THEN m + 1 ELSE m) * (d \div b)

RoundSigned(a, b) == IF a < 0 THEN 0 - RoundQ(0 - a, b) ELSE RoundQ(a, b)

\* float(tok) of a literal FloatOk accepts: the nearest float
FloatVal(tok) ==
    LET t == Strip(tok)
        v == DecimalVal(FloatBody(tok)) * Pow2(FracBits)
    IN  RoundSigned(IF t[1] = "-" THEN 0 - v ELSE v, 1)

\* x + y and x / n on floats: the exact result, rounded
FloatAdd(x, y) == RoundSigned(x + y, 1)
FloatDiv(x, n) == RoundSigned(x, n)

\* a / float(b) as an exact quotient
Quot(a, b) == [num |-> a, den |-> b]

\* sum(times): the items added one after another to 0, each addition rounded
RECURSIVE SumSeq(_)
SumSeq(s) ==
    IF s = <<>> THEN 0
    ELSE FloatAdd(SumSeq(SubSeq(s, 1, Len(s) - 1)), s[Len(s)])

MinSeq(s) == CHOOSE x \in {s[i] : i \in 1..Len(s)} : \A i \in 1..Len(s) : x <= s[i]
MaxSeq(s) == CHOOSE x \in {s[i] : i \in 1..Len(s)} : \A i \in 1..Len(s) : x >= s[i]

(***************************************************************************)
(* parse_verbose                                                           *)
(***************************************************************************)
NoneValue == [tag |-> "None"]
Raise(e) == [tag |-> "raise", exc |-> e]
Dict(d) == [tag |-> "dict", rv |-> d]

Separator == <<" ", ":", " ">>

\* the loop over pings: the numeric tokens in order, sentinels skipped
RECURSIVE Times(_)
Times(pings) ==
    IF pings = <<>> THEN <<>>
    ELSE IF pings[1] = <<"-">> THEN Times(Tail(pings))
    ELSE <<FloatVal(pings[1])>> \o Times(Tail(pings))

LossMutNoBranch(lost, cnt) == Quot(cnt - lost, cnt)

\* lines 144-148
Loss(lost, cnt) == IF lost # 0 THEN Quot(lost, cnt) ELSE Quot(0, 1)

DerivedMutAlways(times) ==
    IF times # <<>>
    THEN [min |-> MinSeq(times), max |-> MaxSeq(times),
          avg |-> FloatDiv(SumSeq(times), Len(times)), last |-> times[Len(times)]]
    ELSE [min |-> 0, max |-> 0, avg |-> 0, last |-> 0]

DerivedMutLastFirst(times) ==
    IF times # <<>>
    THEN [min |-> MinSeq(times), max |-> MaxSeq(times),
          avg |-> FloatDiv(SumSeq(times), Len(times)), last |-> times[1]]
    ELSE <<>>

\* lines 156-160: the keys added when times is non-empty
Derived(times) ==
    IF times # <<>>
    THEN [min |-> MinSeq(times), max |-> MaxSeq(times),
          avg |-> FloatDiv(SumSeq(times), Len(times)), last |-> times[Len(times)]]
    ELSE <<>>

\* the body of the try block, lines 132-161
ParseVerboseTry(line) ==
    LET parts == Split(line, Separator)
    IN  IF Len(parts) # 2 THEN Raise("ValueError")
        ELSE
          LET host == parts[1]
              pings == Split(Strip(parts[2]), <<" ">>)
              cnt == Len(pings)
          IN  IF \E i \in 1..cnt : pings[i] # <<"-">> /\ ~FloatOk(pings[i])
              THEN Raise("ValueError")
              ELSE
                LET times == Times(pings)
                    lost == cnt - Len(times)
                    rv == [host |-> Strip(host), cnt |-> cnt,
                           loss |-> Loss(lost, cnt), data |-> times]
                IN  Dict(Derived(times) @@ rv)

ParseVerboseMutNoExcept(line) == ParseVerboseTry(line)

\* lines 131-166: any exception of the body is logged and turned into None
ParseVerbose(line) ==
    LET r == ParseVerboseTry(line)
    IN  IF r.tag = "raise" THEN NoneValue ELSE r

(***************************************************************************)
(* Text lines handed to the parser                                         *)
(***************************************************************************)
RECURSIVE Flatten(_)
Flatten(ss) == IF ss = <<>> THEN <<>> ELSE ss[1] \o Flatten(Tail(ss))

SeqsUpTo(S, n) == UNION {[1..k -> S] : k \in 0..n}

HeadPieces == {<<"h">>, Separator}
TailPieces == {<<"1", " ">>, <<"-", " ">>, <<"2">>, <<"-">>, <<" ">>, <<"\t">>,
               <<"x">>, Separator}

TextLines ==
    {Flatten(h) \o Flatten(t) \o e :
        h \in SeqsUpTo(HeadPieces, MaxHead), t \in SeqsUpTo(TailPieces, MaxTokens),
        e \in {<<>>, <<"\n">>}}

VARIABLES
    pline,          \* SpecParse: the decoded line handed to parse_verbose
    pres,           \* SpecParse: what parse_verbose returned for it
    inst,           \* "none" before construction, then "ready" or "failed"
    whichFound,     \* whether which(command) found the binary
    vlaunch,        \* how the launch of the version query ended
    vcomm,          \* how communicate() of the version query ended
    vout,           \* the bytes the version query wrote
    versionQueries, \* number of version queries launched so far
    initVersion,    \* the value detect_fping_version returned to __init__
    fping_version,  \* self._fping_version, 0 while the attribute is not set
    count,          \* self.count, 0 while the attribute is not set
    period,         \* self.period, 0 while the attribute is not set
    hosts,          \* self.hosts, the configured host entries
    openProcs,      \* number of process handles that are open
    launches,       \* launches of the probe utility in the current probe() call
    prev,           \* how the previous probe() call ended: "ok", "raise", "failed"
    pc,             \* position of probe(): "idle", "launching", "reading", "waiting"
    args,           \* the argument list _run_proc built
    emitted,        \* the byte lines the process has emitted in this cycle
    data,           \* the local list data of _run_proc
    returncode,     \* proc.returncode, -1 while not waited for
    fault,          \* the failure the environment produced in this cycle
    proc_data,      \* the list _run_proc returned to probe()
    result          \* what probe() returned or raised, "unset" while running

pvars == <<pline, pres>>
ivars == <<inst, whichFound, vlaunch, vcomm, vout, versionQueries, initVersion,
           fping_version, count, period, hosts>>
cvars == <<pc, args, emitted, data, returncode, fault, proc_data, result, launches,
           prev>>
vars == <<pvars, ivars, cvars, openProcs>>

(***************************************************************************)
(* utf-8 decoding of the bytes read from a process                         *)
(***************************************************************************)
Str(t) == [tag |-> "str", text |-> t]

\* bytes.decode("utf-8"): 0xC3 0xA9 is the two-byte encoding of U+00E9; a
\* lead byte without its continuation, a stray continuation byte and 0xFF are
\* invalid; every other byte of the alphabet is ASCII
InvalidAt(bs, i) ==
    \/ bs[i] = "xFF"
    \/ bs[i] = "xC3" /\ (i = Len(bs) \/ bs[i + 1] # "xA9")
    \/ bs[i] = "xA9" /\ (i = 1 \/ bs[i - 1] # "xC3")

Decode(bs) ==
    IF \E i \in 1..Len(bs) : InvalidAt(bs, i) THEN Raise("UnicodeDecodeError")
    ELSE Str(SelectSeq([i \in 1..Len(bs) |->
                           IF bs[i] = "xC3" THEN "U+00E9" ELSE bs[i]],
                       LAMBDA c : c # "xA9"))

(***************************************************************************)
(* __init__ and detect_fping_version                                       *)
(***************************************************************************)
Launches == {"ok", "FileNotFoundError", "OSError"}

\* the configuration: FPingSchema defaults and the hosts of the groups
Command == "fping"
DefaultCount == 5
DefaultPeriod == 20

\* the configured hosts: bare addresses and records with a host key
ConfigHosts ==
    <<[kind |-> "str", value |-> "h"], [kind |-> "dict", host |-> "g"],
      [kind |-> "dict", host |-> "h"]>>

VersionPrefix ==
    <<"f", "p", "i", "n", "g", ":", " ", "V", "e", "r", "s", "i", "o", "n", " ">>

\* "fping: Version 5"
Marker == VersionPrefix \o <<"5">>

VersionPieces == {VersionPrefix, <<"5">>, <<"4">>, <<"xFF">>}

VersionOutputs == {Flatten(o) : o \in SeqsUpTo(VersionPieces, MaxVersionOut)}

Return(v) == [tag |-> "return", value |-> v]

DetectMutSwallowNotFound(launch, comm, out) ==
    IF launch # "ok" \/ comm # "ok" THEN Return(4)
    ELSE LET d == Decode(out)
         IN  IF d.tag = "raise" THEN Return(4)
             ELSE IF Find(d.text, Marker) # 0 THEN Return(5) ELSE Return(4)

DetectMutPrefixOnly(launch, comm, out) ==
    IF launch = "FileNotFoundError" THEN Raise("FileNotFoundError")
    ELSE IF launch # "ok" \/ comm # "ok" THEN Return(4)
    ELSE LET d == Decode(out)
         IN  IF d.tag = "raise" THEN Return(4)
             ELSE IF Find(d.text, VersionPrefix) # 0 THEN Return(5) ELSE Return(4)

\* detect_fping_version, lines 65-88: launch is how popen ended, comm how
\* communicate ended, out the bytes captured
DetectFpingVersion(launch, comm, out) ==
    IF launch = "FileNotFoundError" THEN Raise("FileNotFoundError")
    ELSE IF launch # "ok" \/ comm # "ok" THEN Return(4)
    ELSE LET d == Decode(out)
         IN  IF d.tag = "raise" THEN Return(4)
             ELSE IF Find(d.text, Marker) # 0 THEN Return(5) ELSE Return(4)

WithExitMutLeakOnError(n, how) == IF how = "except" THEN n ELSE n - 1

\* leaving a `with self.popen(...) as proc` block (lines 70-79 and 190-203)
\* releases the handle, whether the block returns or raises
WithExit(n, how) == n - 1

\* __init__, lines 50-63, up to the launch of the version query (line 70)
Construct ==
    /\ inst = "none"
    /\ hosts' = ConfigHosts
    /\ \E found \in BOOLEAN :
         /\ whichFound' = found
         /\ IF ~found
            THEN \* RuntimeError before anything else is set
                 /\ inst' = "failed"
                 /\ UNCHANGED <<vlaunch, vcomm, vout, versionQueries, initVersion,
                                fping_version, count, period, openProcs>>
            ELSE \E launch \in Launches :
                   /\ count' = DefaultCount
                   /\ period' = DefaultPeriod
                   /\ vlaunch' = launch
                   /\ versionQueries' = versionQueries + 1
                   /\ IF launch = "ok"
                      THEN /\ inst' = "detecting"
                           /\ openProcs' = openProcs + 1
                           /\ UNCHANGED <<vcomm, vout, initVersion, fping_version>>
                      ELSE \* no process exists, hence no output
                           /\ vcomm' = "ok"
                           /\ vout' = <<>>
                           /\ UNCHANGED openProcs
                           /\ LET r == DetectFpingVersion(launch, "ok", <<>>)
                              IN  IF r.tag = "raise"
                                  THEN /\ inst' = "failed"
                                       /\ UNCHANGED <<initVersion, fping_version>>
                                  ELSE /\ inst' = "ready"
                                       /\ initVersion' = r.value
                                       /\ fping_version' = r.value
    /\ UNCHANGED <<pvars, cvars>>

\* the with block of detect_fping_version, lines 73-79, and the assignment
\* of its result at line 62
DetectDone ==
    /\ inst = "detecting"
    /\ \E comm \in {"ok", "Exception"}, out \in VersionOutputs :
         \* the output is captured only when communicate() returned
         /\ comm # "ok" => out = <<>>
         /\ vcomm' = comm
         /\ vout' = out
         /\ LET r == DetectFpingVersion("ok", comm, out)
                how == IF comm = "ok" /\ Decode(out).tag = "str"
                       THEN "return" ELSE "except"
            IN  /\ openProcs' = WithExit(openProcs, how)
                /\ inst' = "ready"
                /\ initVersion' = r.value
                /\ fping_version' = r.value
    /\ UNCHANGED <<pvars, cvars, whichFound, vlaunch, versionQueries, count, period,
                   hosts>>

(***************************************************************************)
(* hosts_args and the argument list of _run_proc                           *)
(***************************************************************************)
RECURSIVE Dedupe(_, _)
Dedupe(host_args, dedupe) ==
    IF host_args = <<>> THEN dedupe
    ELSE IF \E i \in 1..Len(dedupe) : dedupe[i] = host_args[1]
    THEN Dedupe(Tail(host_args), dedupe)
    ELSE Dedupe(Tail(host_args), Append(dedupe, host_args[1]))

HostsArgsMutNoDedupe(rows) ==
    [i \in 1..Len(rows) |->
        IF rows[i].kind = "dict" THEN rows[i].host ELSE rows[i].value]

\* hosts_args, lines 90-112
HostsArgs(rows) ==
    Dedupe([i \in 1..Len(rows) |->
               IF rows[i].kind = "dict" THEN rows[i].host ELSE rows[i].value],
           <<>>)

\* one element of an argument list: a literal text, or "-C%d" % n and
\* "-p%d" % n as the prefix with the number formatted after it
Arg(t) == [text |-> t]
ArgNum(t, n) == [text |-> t, num |-> n]

HostArgList(rows) == [i \in 1..Len(HostsArgs(rows)) |-> Arg(HostsArgs(rows)[i])]

RunProcArgsMutQuietFirst(command, cnt, per, version, rows) ==
    <<Arg(command)>> \o (IF version = 5 THEN <<Arg("-q")>> ELSE <<>>)
        \o <<Arg("-u"), ArgNum("-C", cnt), ArgNum("-p", per), Arg("-e")>>
        \o HostArgList(rows)

RunProcArgsMutNoQuiet(command, cnt, per, version, rows) ==
    <<Arg(command), Arg("-u"), ArgNum("-C", cnt), ArgNum("-p", per), Arg("-e")>>
        \o HostArgList(rows)

\* lines 169-183
RunProcArgs(command, cnt, per, version, rows) ==
    <<Arg(command), Arg("-u"), ArgNum("-C", cnt), ArgNum("-p", per), Arg("-e")>>
        \o (IF version = 5 THEN <<Arg("-q")>> ELSE <<>>)
        \o HostArgList(rows)

(***************************************************************************)
(* _run_proc and probe                                                     *)
(***************************************************************************)
\* the byte lines the external process may write
CycleLines ==
    { <<"h", " ", ":", " ", "1", " ", "2", "\n">>,
      <<"xC3", "xA9", " ", ":", " ", "-", " ", "1", "\n">>,
      <<"h", " ", "1", "\n">>,
      <<"h", " ", ":", " ", "2", "xFF", "\n">> }

\* the truth value of a parse_verbose result: None and {} are false
Truthy(p) == p.tag = "dict" /\ DOMAIN p.rv # {}

AppendParsedMutTwice(d, parsed) ==
    IF Truthy(parsed) THEN d \o <<parsed, parsed>> ELSE d

\* lines 196-197
AppendParsed(d, parsed) == IF Truthy(parsed) THEN Append(d, parsed) ELSE d

RunProcReturnMutDropOnExit(d, rc) == IF rc # 0 THEN <<>> ELSE d

\* lines 198-203 and 216: the exit code is only logged
RunProcReturn(d, rc) == d

ProbeReturnMutAlwaysMsg(pd) ==
    [kind |-> "msg", data |-> SelectSeq(pd, LAMBDA x : x.tag # "None")]

\* probe, lines 243-250
ProbeReturn(pd) ==
    LET d == SelectSeq(pd, LAMBDA x : x.tag # "None")
    IN  IF d # <<>> THEN [kind |-> "msg", data |-> d] ELSE [kind |-> "None"]

Unset == [kind |-> "unset"]

FreshDataMutKeep(d) == d

\* line 184: data = list(), a new list in every call
FreshData(d) == <<>>

PrevOutcome(res, flt) ==
    IF res.kind = "raise" THEN "raise"
    ELSE IF flt \in {"launch_other", "decode", "read", "wait"} THEN "failed"
    ELSE "ok"

\* probe() and _run_proc up to the launch, lines 240-242 and 168-186
ProbeStart ==
    /\ inst = "ready"
    /\ pc = "idle"
    /\ pc' = "launching"
    /\ prev' = PrevOutcome(result, fault)
    /\ args' = RunProcArgs(Command, count, period, fping_version, hosts)
    /\ emitted' = <<>>
    /\ data' = FreshData(data)
    /\ returncode' = -1
    /\ fault' = "none"
    /\ proc_data' = <<>>
    /\ result' = Unset
    /\ launches' = 0
    /\ UNCHANGED <<pvars, ivars, openProcs>>

LaunchFailureMutSwallow(exc) == Return(<<>>)

\* the handlers of _run_proc for an exception of self.popen, lines 205-214:
\* FileNotFoundError is logged and re-raised, anything else gives []
LaunchFailure(exc) ==
    IF exc = "FileNotFoundError" THEN Raise("FileNotFoundError") ELSE Return(<<>>)

ExceptReturnMutPartial(d) == d

\* line 214: return [], whatever data holds
ExceptReturn(d) == <<>>

PcAfterExceptMutRetry == "launching"

\* where probe() continues after a handler of _run_proc ran: it returns or
\* re-raises, nothing is launched again
PcAfterExcept == "idle"

\* self.popen(...), lines 190-192
Popen ==
    /\ pc = "launching"
    /\ launches' = launches + 1
    /\ \E launch \in Launches :
         IF launch = "ok"
         THEN /\ pc' = "reading"
              /\ openProcs' = openProcs + 1
              /\ UNCHANGED <<fault, proc_data, result>>
         ELSE LET r == LaunchFailure(launch)
              IN  /\ pc' = PcAfterExcept
                  /\ fault' = IF launch = "FileNotFoundError"
                              THEN "launch_notfound" ELSE "launch_other"
                  /\ UNCHANGED openProcs
                  /\ IF r.tag = "raise"
                     THEN \* through probe() to its caller
                          /\ proc_data' = <<>>
                          /\ result' = [kind |-> "raise", exc |-> r.exc]
                     ELSE /\ proc_data' = r.value
                          /\ result' = ProbeReturn(r.value)
    /\ UNCHANGED <<pvars, ivars, args, emitted, data, returncode, prev>>

\* one iteration of the loop over proc.stdout.readline, lines 193-197
ReadLine ==
    /\ pc = "reading"
    /\ Len(emitted) < MaxLines
    /\ \E line \in CycleLines :
         /\ emitted' = Append(emitted, line)
         /\ LET decoded_line == Decode(line)
            IN  IF decoded_line.tag = "raise"
                THEN \* UnicodeDecodeError reaches except Exception: return []
                     /\ pc' = PcAfterExcept
                     /\ fault' = "decode"
                     /\ proc_data' = ExceptReturn(data)
                     /\ result' = ProbeReturn(ExceptReturn(data))
                     /\ openProcs' = WithExit(openProcs, "except")
                     /\ UNCHANGED data
                ELSE /\ data' = AppendParsed(data, ParseVerbose(decoded_line.text))
                     /\ UNCHANGED <<pc, fault, proc_data, result, openProcs>>
    /\ UNCHANGED <<pvars, ivars, args, returncode, launches, prev>>

\* readline raises: except Exception, return [], lines 211-214
ReadFail ==
    /\ pc = "reading"
    /\ pc' = PcAfterExcept
    /\ fault' = "read"
    /\ proc_data' = ExceptReturn(data)
    /\ result' = ProbeReturn(ExceptReturn(data))
    /\ openProcs' = WithExit(openProcs, "except")
    /\ UNCHANGED <<pvars, ivars, args, emitted, data, returncode, launches, prev>>

\* readline returns b"": the loop ends
ReadEof ==
    /\ pc = "reading"
    /\ pc' = "waiting"
    /\ UNCHANGED <<pvars, ivars, args, emitted, data, returncode, fault, proc_data,
                   result, launches, prev, openProcs>>

\* proc.wait() returns, lines 199-203, then return data and the rest of probe
ProcWait ==
    /\ pc = "waiting"
    /\ \E rc \in {0, 1} :
         /\ returncode' = rc
         /\ proc_data' = RunProcReturn(data, rc)
         /\ result' = ProbeReturn(RunProcReturn(data, rc))
    /\ pc' = "idle"
    /\ openProcs' = WithExit(openProcs, "return")
    /\ UNCHANGED <<pvars, ivars, args, emitted, data, fault, launches, prev>>

\* proc.wait() raises: except Exception, return []
WaitFail ==
    /\ pc = "waiting"
    /\ pc' = PcAfterExcept
    /\ fault' = "wait"
    /\ proc_data' = ExceptReturn(data)
    /\ result' = ProbeReturn(ExceptReturn(data))
    /\ openProcs' = WithExit(openProcs, "except")
    /\ UNCHANGED <<pvars, ivars, args, emitted, data, returncode, launches, prev>>

Init ==
    /\ pline = <<>>
    /\ pres = [tag |-> "pending"]
    /\ inst = "none"
    /\ whichFound = FALSE
    /\ vlaunch = "unset"
    /\ vcomm = "unset"
    /\ vout = <<>>
    /\ versionQueries = 0
    /\ initVersion = 0
    /\ fping_version = 0
    /\ count = 0
    /\ period = 0
    /\ hosts = <<>>
    /\ openProcs = 0
    /\ pc = "idle"
    /\ args = <<>>
    /\ emitted = <<>>
    /\ data = <<>>
    /\ returncode = -1
    /\ fault = "none"
    /\ proc_data = <<>>
    /\ result = Unset
    /\ launches = 0
    /\ prev = "ok"

Next ==
    \/ Construct
    \/ DetectDone
    \/ ProbeStart
    \/ Popen
    \/ ReadLine
    \/ ReadFail
    \/ ReadEof
    \/ ProcWait
    \/ WaitFail

Spec == Init /\ [][Next]_vars

(***************************************************************************)
(* The parser on its own: one call of parse_verbose on a generated line    *)
(***************************************************************************)
ParseInit ==
    /\ pline \in TextLines
    /\ pres = [tag |-> "pending"]
    /\ inst = "none"
    /\ whichFound = FALSE
    /\ vlaunch = "unset"
    /\ vcomm = "unset"
    /\ vout = <<>>
    /\ versionQueries = 0
    /\ initVersion = 0
    /\ fping_version = 0
    /\ count = 0
    /\ period = 0
    /\ hosts = <<>>
    /\ openProcs = 0
    /\ pc = "idle"
    /\ args = <<>>
    /\ emitted = <<>>
    /\ data = <<>>
    /\ returncode = -1
    /\ fault = "none"
    /\ proc_data = <<>>
    /\ result = Unset
    /\ launches = 0
    /\ prev = "ok"

\* one call of parse_verbose on a decoded line
ParseLine ==
    /\ pres.tag = "pending"
    /\ pres' = ParseVerbose(pline)
    /\ UNCHANGED <<pline, ivars, cvars, openProcs>>

SpecParse == ParseInit /\ [][ParseLine]_vars

(***************************************************************************)
(* The statistics of a record: well-formed lines "h : t1 t2 ..." whose     *)
(* tokens are latencies or the sentinel, handed to the parser              *)
(***************************************************************************)
StatTokens == {<<"3">>, <<"6">>, <<"1", "4">>, <<"-">>}

RECURSIVE JoinSpaces(_)
JoinSpaces(toks) ==
    IF toks = <<>> THEN <<>>
    ELSE IF Len(toks) = 1 THEN toks[1]
    ELSE toks[1] \o <<" ">> \o JoinSpaces(Tail(toks))

StatLines ==
    {<<"h">> \o Separator \o JoinSpaces(toks) :
        toks \in SeqsUpTo(StatTokens, MaxSamples) \ {<<>>}}

StatInit ==
    /\ pline \in StatLines
    /\ pres = [tag |-> "pending"]
    /\ inst = "none"
    /\ whichFound = FALSE
    /\ vlaunch = "unset"
    /\ vcomm = "unset"
    /\ vout = <<>>
    /\ versionQueries = 0
    /\ initVersion = 0
    /\ fping_version = 0
    /\ count = 0
    /\ period = 0
    /\ hosts = <<>>
    /\ openProcs = 0
    /\ pc = "idle"
    /\ args = <<>>
    /\ emitted = <<>>
    /\ data = <<>>
    /\ returncode = -1
    /\ fault = "none"
    /\ proc_data = <<>>
    /\ result = Unset
    /\ launches = 0
    /\ prev = "ok"

SpecStats == StatInit /\ [][ParseLine]_vars

(***************************************************************************)
(* The command builder on its own: a constructed instance with any count,  *)
(* period, dialect and host list, and the first step of one probe() call   *)
(***************************************************************************)
Counts == {1, 5}
Periods == {20, 500}

\* host entries: bare addresses, records with a host key, and a record that
\* carries display metadata beside the host
HostEntries ==
    {[kind |-> "str", value |-> a] : a \in {"a", "b", "c"}}
        \cup {[kind |-> "dict", host |-> a] : a \in {"a", "b"}}
        \cup {[kind |-> "dict", host |-> "a", name |-> "A"]}

ArgsInit ==
    /\ pline = <<>>
    /\ pres = [tag |-> "pending"]
    /\ inst = "ready"
    /\ whichFound = TRUE
    /\ vlaunch = "OSError"
    /\ vcomm = "ok"
    /\ vout = <<>>
    /\ versionQueries = 1
    /\ fping_version \in {4, 5}
    /\ initVersion = fping_version
    /\ count \in Counts
    /\ period \in Periods
    /\ hosts \in SeqsUpTo(HostEntries, MaxHosts)
    /\ openProcs = 0
    /\ pc = "idle"
    /\ args = <<>>
    /\ emitted = <<>>
    /\ data = <<>>
    /\ returncode = -1
    /\ fault = "none"
    /\ proc_data = <<>>
    /\ result = Unset
    /\ launches = 0
    /\ prev = "ok"

SpecArgs == ArgsInit /\ [][ProbeStart]_vars

(***************************************************************************)
(* Properties of the command builder and of hosts_args, under SpecArgs     *)
(***************************************************************************)
AddressOf(row) == IF row.kind = "dict" THEN row.host ELSE row.value

\* the positions of rows that hold an address for the first time
FirstPositions(rows) ==
    {i \in 1..Len(rows) : \A j \in 1..(i - 1) : AddressOf(rows[j]) # AddressOf(rows[i])}

\* C11: the argument list of a cycle is the command, -u, -C<count>,
\* -p<period>, -e, then -q exactly when the dialect is 5, then the resolved
\* host addresses in their resolved order, for every count, period, dialect
\* and host list.
Thm_C11_ArgumentList ==
    pc = "launching" =>
        LET q == IF fping_version = 5 THEN 1 ELSE 0
            resolved == HostsArgs(hosts)
        IN  /\ Len(args) = 5 + q + Len(resolved)
            /\ args[1] = Arg(Command)
            /\ args[2] = Arg("-u")
            /\ args[3] = ArgNum("-C", count)
            /\ args[4] = ArgNum("-p", period)
            /\ args[5] = Arg("-e")
            /\ q = 1 => args[6] = Arg("-q")
            /\ (\E i \in 1..Len(args) : args[i] = Arg("-q")) <=> fping_version = 5
            /\ \A i \in 1..Len(resolved) : args[5 + q + i] = Arg(resolved[i])
            /\ Len(resolved) = Cardinality(FirstPositions(hosts))

Wit_C11_ModernWithHosts ==
    /\ pc = "launching"
    /\ fping_version = 5
    /\ count = 1
    /\ period = 500
    /\ Len(args) = 8

\* C12: hosts_args returns every distinct address once, ordered by first
\* appearance; a bare address and a record with the same host value are the
\* same address; an empty list gives an empty list.
Thm_C12_HostsDeduplicated ==
    LET r == HostsArgs(hosts)
        first == FirstPositions(hosts)
    IN  /\ \A i, j \in 1..Len(r) : i # j => r[i] # r[j]
        /\ {r[i] : i \in 1..Len(r)} = {AddressOf(hosts[i]) : i \in 1..Len(hosts)}
        /\ Len(r) = Cardinality(first)
        /\ \A k \in 1..Len(r) :
             \E i \in first :
                /\ AddressOf(hosts[i]) = r[k]
                /\ Cardinality({j \in first : j < i}) = k - 1
        /\ hosts = <<>> => r = <<>>
        /\ pc = "launching" =>
             \A k \in 1..Len(r) : args[Len(args) - Len(r) + k] = Arg(r[k])

Wit_C12_MixedDuplicates ==
    /\ pc = "launching"
    /\ Len(hosts) = 3
    /\ hosts[1] = [kind |-> "str", value |-> "b"]
    /\ hosts[2] = [kind |-> "dict", host |-> "a", name |-> "A"]
    /\ hosts[3] = [kind |-> "str", value |-> "a"]
    /\ HostsArgs(hosts) = <<"b", "a">>

(***************************************************************************)
(* Properties of the line parser, checked under SpecParse                  *)
(***************************************************************************)
\* the text right of the first separator, and its white-space separated tokens
RightSide(line) ==
    LET i == Find(line, Separator)
    IN  IF i = 0 THEN <<>> ELSE Slice(line, i + Len(Separator), Len(line))

RECURSIVE WsTokens(_)
WsTokens(s) ==
    LET t == Strip(s)
        ws == {i \in 1..Len(t) : t[i] \in Whitespace}
        cut == IF ws = {} THEN Len(t) + 1 ELSE CHOOSE i \in ws : \A j \in ws : i <= j
    IN  IF t = <<>> THEN <<>>
        ELSE <<Slice(t, 1, cut - 1)>> \o WsTokens(Slice(t, cut, Len(t)))

RECURSIVE NumericValues(_)
NumericValues(toks) ==
    IF toks = <<>> THEN <<>>
    ELSE IF toks[1] = <<"-">> THEN NumericValues(Tail(toks))
    ELSE <<FloatVal(toks[1])>> \o NumericValues(Tail(toks))

DerivedKeys == {"min", "max", "avg", "last"}

\* C2: parse_verbose is total: whatever the line (no separator, several
\* separators, a token that is neither numeric nor "-"), the call returns a
\* record or None and no exception reaches the caller.
Thm_C2_ParserTotal == pres.tag \in {"pending", "dict", "None"}

Wit_C2_MalformedGivesNone ==
    /\ pres = NoneValue
    /\ Len(Split(pline, Separator)) > 2

\* C4: in every record the parser produces, cnt is the number of tokens right
\* of the separator (sentinels included), data is the numeric tokens in their
\* order with the sentinels removed, and loss = (cnt - len(data)) / cnt, a
\* value in [0, 1].
Thm_C4_CountSamplesLoss ==
    pres.tag = "dict" =>
        LET rv == pres.rv
            toks == WsTokens(RightSide(pline))
        IN  /\ rv.cnt = Len(toks)
            /\ rv.cnt > 0
            /\ rv.data = NumericValues(toks)
            /\ rv.loss.den > 0
            /\ rv.loss.num * rv.cnt = (rv.cnt - Len(rv.data)) * rv.loss.den
            /\ 0 <= rv.loss.num /\ rv.loss.num <= rv.loss.den

Wit_C4_MixedLine ==
    /\ pres.tag = "dict"
    /\ pres.rv.cnt = 3
    /\ Len(pres.rv.data) = 2

\* C5: a record carries min, max, avg and last exactly when its data list is
\* non-empty; a line of sentinels only yields data = [], loss = 1.0 and none
\* of the four keys.
Thm_C5_DerivedIffSamples ==
    pres.tag = "dict" =>
        LET rv == pres.rv
            toks == WsTokens(RightSide(pline))
        IN  /\ rv.data # <<>> => DerivedKeys \subseteq DOMAIN rv
            /\ rv.data = <<>> => DerivedKeys \cap DOMAIN rv = {}
            /\ (\A i \in 1..Len(toks) : toks[i] = <<"-">>) =>
                   /\ rv.data = <<>>
                   /\ rv.loss.num = rv.loss.den
                   /\ DerivedKeys \cap DOMAIN rv = {}

Wit_C5_AllSentinels ==
    /\ pres.tag = "dict"
    /\ pres.rv.cnt = 3
    /\ pres.rv.data = <<>>

\* the line with the same host and the same tokens, one space between tokens
SingleSpaced(line) ==
    Split(line, Separator)[1] \o Separator \o JoinSpaces(WsTokens(RightSide(line)))

\* C18: a line with one separator whose tokens, separated by runs of white
\* space, are all numeric or "-" yields a record whose cnt is the number of
\* tokens, the record of the same line written with single spaces.
Cex_C18_WhitespaceRuns ==
    LET toks == WsTokens(RightSide(pline))
    IN  (/\ pres.tag # "pending"
         /\ Len(Split(pline, Separator)) = 2
         /\ toks # <<>>
         /\ \A i \in 1..Len(toks) : toks[i] = <<"-">> \/ FloatOk(toks[i]))
        => /\ pres.tag = "dict"
           /\ pres.rv.cnt = Len(toks)
           /\ pres = ParseVerbose(SingleSpaced(pline))

(***************************************************************************)
(* Properties of the statistics of a record, checked under SpecStats       *)
(***************************************************************************)
IsMinOf(x, s) == (\E i \in 1..Len(s) : x = s[i]) /\ (\A i \in 1..Len(s) : x <= s[i])
IsMaxOf(x, s) == (\E i \in 1..Len(s) : x = s[i]) /\ (\A i \in 1..Len(s) : x >= s[i])

\* the positions of the numeric tokens
NumericPositions(toks) == {i \in 1..Len(toks) : toks[i] # <<"-">>}

RECURSIVE ExactSum(_)
ExactSum(s) == IF s = <<>> THEN 0 ELSE s[1] + ExactSum(Tail(s))

\* x is a float: rounding leaves it as it is
IsFloat(x) == RoundSigned(x, 1) = x

RECURSIVE RecordsOf(_)
RecordsOf(lines) ==
    IF lines = <<>> THEN <<>>
    ELSE LET d == Decode(lines[1])
             p == IF d.tag = "raise" THEN NoneValue ELSE ParseVerbose(d.text)
         IN  (IF p.tag = "dict" THEN <<p>> ELSE <<>>) \o RecordsOf(Tail(lines))

Usable(line) == RecordsOf(<<line>>) # <<>>

CycleFinished == pc = "idle" /\ result # Unset

StreamOrLaunchFailure == fault \in {"launch_notfound", "launch_other", "read", "wait"}

\* C1: when a cycle ends without launch or stream failure, the data it
\* returns is exactly the records of the emitted lines that parse, in the
\* order emitted, one per parsed line and nothing for a line that does not.
Cex_C1_DataIsParsedLinesInOrder ==
    (CycleFinished /\ ~StreamOrLaunchFailure) => proc_data = RecordsOf(emitted)

\* C3: a cycle in which some emitted line cannot be turned into a record
\* (also one that cannot be decoded) raises nothing and still returns the
\* record of every usable line emitted before or after it.
Cex_C3_BadLineStaysLocal ==
    (/\ CycleFinished
     /\ ~StreamOrLaunchFailure
     /\ \E i \in 1..Len(emitted) : ~Usable(emitted[i]))
    => /\ result.kind # "raise"
       /\ \A i \in 1..Len(emitted) :
            Usable(emitted[i]) =>
                \E j \in 1..Len(proc_data) : <<proc_data[j]>> = RecordsOf(<<emitted[i]>>)

\* C6: a cycle whose process exits with a non-zero code returns the records
\* of all the lines parsed before the exit, the same data as exit code 0
\* gives for those lines.
Thm_C6_NonZeroExitKeepsData ==
    (pc = "idle" /\ returncode \notin {-1, 0}) =>
        /\ proc_data = data
        /\ proc_data = RunProcReturn(data, 0)
        /\ proc_data = RecordsOf(emitted)
        /\ result = ProbeReturn(RecordsOf(emitted))

Wit_C6_NonZeroExitWithRecords ==
    /\ pc = "idle"
    /\ returncode = 1
    /\ Len(proc_data) >= 2
    /\ result.kind = "msg"

\* C7: probe() never returns a message with empty data: a cycle without a
\* parsed line returns None, and a returned message holds at least one record.
Thm_C7_NoEmptyMessage ==
    CycleFinished =>
        /\ result.kind = "msg" => Len(result.data) >= 1 /\ result.data = proc_data
        /\ (result.kind # "raise" /\ proc_data = <<>>) => result.kind = "None"
        /\ (fault = "none" /\ RecordsOf(emitted) = <<>>) => result.kind = "None"

Wit_C7_OnlyUnparseableLines ==
    /\ CycleFinished
    /\ fault = "none"
    /\ Len(emitted) >= 2
    /\ result.kind = "None"

HasQuiet(a) == \E i \in 1..Len(a) : a[i] = Arg("-q")

\* C8: the dialect is set once by __init__ and never changes: on a usable
\* instance exactly one version query has been run, whatever cycles followed,
\* _fping_version is the value __init__ stored, and every cycle builds its
\* command from that value.
Thm_C8_DialectSetOnce ==
    /\ versionQueries <= 1
    /\ inst = "ready" =>
         /\ versionQueries = 1
         /\ initVersion \in {4, 5}
         /\ fping_version = initVersion
         /\ args # <<>> => (HasQuiet(args) <=> initVersion = 5)

Wit_C8_ModernAfterFailedCycle ==
    /\ inst = "ready"
    /\ initVersion = 5
    /\ CycleFinished
    /\ fault = "wait"
    /\ HasQuiet(args)

\* C9: when the binary is missing at construction (which() finds nothing, or
\* the launch of the version query raises FileNotFoundError) construction
\* fails: the instance is never usable, no cycle runs on it and no dialect is
\* recorded.
Thm_C9_MissingBinaryIsFatal ==
    /\ (inst # "none" /\ (~whichFound \/ vlaunch = "FileNotFoundError")) => inst = "failed"
    /\ inst = "failed" =>
         /\ fping_version = 0
         /\ pc = "idle" /\ result = Unset /\ args = <<>> /\ emitted = <<>>
         /\ ~ENABLED ProbeStart

Wit_C9_VersionLaunchNotFound ==
    /\ inst = "failed"
    /\ whichFound
    /\ vlaunch = "FileNotFoundError"

\* C10: with the binary present construction always succeeds with a dialect:
\* 5 exactly when the version query ran to completion and its decoded output
\* contains "fping: Version 5", 4 in every other case (launch or communicate
\* failure, undecodable output, no marker).
Thm_C10_DialectClassification ==
    (inst \notin {"none", "detecting"} /\ whichFound /\ vlaunch # "FileNotFoundError") =>
        /\ inst = "ready"
        /\ fping_version \in {4, 5}
        /\ fping_version = 5 <=>
             /\ vlaunch = "ok"
             /\ vcomm = "ok"
             /\ Decode(vout).tag = "str"
             /\ \E i \in 1..Len(vout) : OccursAt(Decode(vout).text, Marker, i)

Wit_C10_Modern ==
    /\ inst = "ready"
    /\ fping_version = 5
    /\ vout = Marker

\* what one cycle returns to the caller of probe(), from what happened in
\* that cycle alone
Outcome(lines, flt) ==
    IF flt = "launch_notfound" THEN [kind |-> "raise", exc |-> "FileNotFoundError"]
    ELSE IF flt # "none" THEN [kind |-> "None"]
    ELSE ProbeReturn(RecordsOf(lines))

\* C13: a launch that fails with FileNotFoundError during a cycle reaches the
\* caller of probe() as that exception, not as an empty result; the instance
\* stays usable with its dialect, and a later cycle that runs through returns
\* the records of its lines.
Thm_C13_LaunchErrorPropagates ==
    /\ (pc = "idle" /\ fault = "launch_notfound") =>
         /\ whichFound
         /\ result = [kind |-> "raise", exc |-> "FileNotFoundError"]
         /\ inst = "ready"
         /\ fping_version = initVersion
         /\ ENABLED ProbeStart
    /\ (prev = "raise" /\ CycleFinished /\ fault = "none") =>
         /\ result = ProbeReturn(RecordsOf(emitted))
         /\ fping_version = initVersion
         /\ HasQuiet(args) <=> initVersion = 5

Wit_C13_RecordsAfterLaunchError ==
    /\ prev = "raise"
    /\ CycleFinished
    /\ fault = "none"
    /\ result.kind = "msg"
    /\ Len(result.data) = 2

\* C14: a failure other than FileNotFoundError while launching, reading or
\* waiting ends the cycle with an empty result, so probe() returns None, also
\* when records had been collected; nothing is raised, and the next cycle
\* returns what its own lines give.
Thm_C14_RuntimeFailureGivesNoData ==
    /\ (pc = "idle" /\ fault \in {"launch_other", "read", "wait"}) =>
         /\ proc_data = <<>>
         /\ result = [kind |-> "None"]
         /\ inst = "ready"
         /\ ENABLED ProbeStart
    /\ (prev = "failed" /\ CycleFinished /\ fault = "none") =>
         result = ProbeReturn(RecordsOf(emitted))

Wit_C14_ReadFailureAfterRecords ==
    /\ pc = "idle"
    /\ fault = "read"
    /\ Len(data) = 2
    /\ result.kind = "None"

\* C15: never more than one process handle is open, one is open only while
\* the version query or a cycle is between its launch and its exit from the
\* with block, and none is open once construction or probe() has returned,
\* however it returned.
Thm_C15_OneProcessInFlight ==
    /\ openProcs \in {0, 1}
    /\ openProcs = 1 <=> (inst = "detecting" \/ pc \in {"reading", "waiting"})
    /\ inst = "detecting" => pc = "idle"
    /\ (inst \in {"ready", "failed"} /\ pc = "idle") => openProcs = 0

Wit_C15_ReleasedAfterFailures ==
    /\ vlaunch = "ok"
    /\ vcomm = "Exception"
    /\ pc = "idle"
    /\ fault = "wait"
    /\ prev = "raise"
    /\ openProcs = 0

\* C16: what a cycle returns depends only on the lines, the failure and the
\* exit status of that cycle, whatever the cycle before it did, the command
\* is built from the configuration and the dialect of construction, and
\* count, period, hosts and dialect keep the values construction gave them.
Thm_C16_NoStateAcrossCycles ==
    /\ CycleFinished => result = Outcome(emitted, fault)
    /\ (pc \in {"reading", "waiting"}) => data = RecordsOf(emitted)
    /\ inst = "ready" =>
         /\ count = DefaultCount
         /\ period = DefaultPeriod
         /\ hosts = ConfigHosts
         /\ fping_version = initVersion
    /\ args # <<>> =>
         args = RunProcArgs(Command, DefaultCount, DefaultPeriod, initVersion, ConfigHosts)

Wit_C16_OneRecordAfterFailedCycle ==
    /\ prev = "failed"
    /\ CycleFinished
    /\ fault = "none"
    /\ Len(emitted) = 1
    /\ result.kind = "msg"
    /\ Len(result.data) = 1

\* the bytes of a line before the separator, without surrounding whitespace
LineHost(line) == Strip(Split(line, Separator)[1])

HostsDistinct(recs) ==
    \A i, j \in 1..Len(recs) : i # j => recs[i].rv.host # recs[j].rv.host

\* C17 as stated: no two records of one cycle have the same host, whatever
\* lines the process emits.
Cex_C17_OneRecordPerHost == CycleFinished => HostsDistinct(proc_data)

\* C17: a cycle returns one record per emitted line that parses, in the order
\* emitted, or nothing; its records have pairwise different hosts whenever
\* the process emits at most one parseable line per host.
Thm_C17_OneRecordPerParsedLine ==
    CycleFinished =>
        LET usable == {i \in 1..Len(emitted) : Usable(emitted[i])}
        IN  /\ proc_data \in {<<>>, RecordsOf(emitted)}
            /\ fault = "none" => Len(proc_data) = Cardinality(usable)
            /\ (\A i, j \in usable :
                  i # j => LineHost(emitted[i]) # LineHost(emitted[j]))
               => HostsDistinct(proc_data)

Wit_C17_TwoHostsTwoRecords ==
    /\ CycleFinished
    /\ fault = "none"
    /\ Len(emitted) = 2
    /\ Len(proc_data) = 2
    /\ proc_data[1].rv.host # proc_data[2].rv.host

\* C20: a call of probe() launches the process at most once: no launch has
\* happened before its popen, exactly one once the call has gone past it,
\* and after any failure the call is over, so that only a new call of
\* probe() can launch again.
Thm_C20_NoRetry ==
    /\ launches \in {0, 1}
    /\ pc = "launching" => launches = 0
    /\ pc \in {"reading", "waiting"} => launches = 1
    /\ CycleFinished => launches = 1
    /\ fault # "none" => (pc = "idle" /\ ~ENABLED Popen)

Wit_C20_FailedLaunchNotRepeated ==
    /\ CycleFinished
    /\ fault = "launch_other"
    /\ launches = 1
    /\ result.kind = "None"
    /\ prev = "failed"

=============================================================================
